---- MODULE Spec2Model ----
(***************************************************************************)
(* Model of genwallpaper: the palette sequencer (ColorPalette), the font   *)
(* resolver (_load_font), the wallpaper orchestrator and its diagonal      *)
(* tiling loop (generate_wallpapers), the command line front end           *)
(* (parse_resolution, main) and the palette override of the interactive    *)
(* front end (generate_single_wallpaper).                                  *)
(*                                                                         *)
(* Each component has its own specification over the shared variables:     *)
(*   SpecPalette  repeated ColorPalette.get_random_palette() calls         *)
(*   Spec         repeated generate_wallpapers() calls in one process      *)
(*   SpecFont     _load_font                                               *)
(*   SpecCLI      main() of the command line                               *)
(*   SpecTiling   the tiling loop of generate_wallpapers for one text      *)
(*   SpecFrontend generate_single_wallpaper calls of the Streamlit front   *)
(*                end, one script thread per browser session               *)
(***************************************************************************)
EXTENDS Integers, Sequences, FiniteSets, TLC

VARIABLES
    PALETTES,        \* ColorPalette.PALETTES: the catalog, a list of palette ids
    palette_queue,   \* ColorPalette._palette_queue
    window,          \* history: the last CatalogSize palettes returned
    sinceRefill,     \* history: palettes returned since the most recent refill
    ndraws,          \* history: number of draws so far
    pc,              \* generate_wallpapers: "idle", "running", "done", "raised"
    texts,           \* generate_wallpapers: the texts argument
    idx,             \* generate_wallpapers: number of loop iterations begun
    drawn,           \* history: palettes drawn by the current invocation
    disk,            \* the file system: path -> content
    written,         \* history: paths saved by the current invocation
    emptyAtStart,    \* history: output_dir held no file when the call began
    failedAt,        \* history: index of the text whose save raised, 0 if none
    diskBefore,      \* history: the disk just before the save that raised
    fpc,             \* _load_font: "idle", "trying", "returned"
    fheight,         \* _load_font: the height argument
    outcomes,        \* what ImageFont.truetype does for each of font_names
    cand,            \* _load_font: position in font_names
    font,            \* _load_font: the (font, size) pair returned
    cpc,             \* main: "idle", "parse", "makedirs", "generate", "done", "error"
    resolution,      \* main: args.resolution
    dims,            \* main: the (width, height) parse_resolution returned
    dirMade,         \* main: os.makedirs(args.output) has run
    coreArgs,        \* main: the (width, height) generate_wallpapers was called with
    tpc,             \* tiling loop: "idle", "loop", "saved"
    width,           \* generate_wallpapers: width
    height,          \* generate_wallpapers: height
    text_width,      \* bbox[2] - bbox[0]
    text_height,     \* bbox[3] - bbox[1]
    rows,            \* <<min_row, max_row>>
    cols,            \* <<min_col, max_col>>
    row,             \* loop variable of `for row in range(min_row, max_row)`
    col,             \* loop variable of `for col in range(min_col, max_col)`
    tile,            \* the candidate handled last: its position and whether it was pasted
    selector,        \* the class attribute ColorPalette.get_random_palette
    spc,             \* generate_single_wallpaper, per session: position in the call
    pinned,          \* generate_single_wallpaper, per session: the palette argument
    original_get_random_palette,  \* per session: the local variable of that name
    used,            \* history, per session: palettes the call's generation used
    leftover,        \* per session: wallpaper_dir still holds the generated file
    raised,          \* per session: the call is exiting with an exception
    queueBefore,     \* history, per session: _palette_queue when the call began
    queueAfter,      \* history, per session: _palette_queue when the call exited
    overlapped,      \* history: two calls have been in progress at the same time
    ncalls           \* history: number of generate_single_wallpaper calls begun

pvars == <<PALETTES, palette_queue, window, sinceRefill, ndraws>>
ovars == <<pc, texts, idx, drawn, disk, written, emptyAtStart, failedAt, diskBefore>>
fvars == <<fpc, fheight, outcomes, cand, font>>
cvars == <<cpc, resolution, dims, dirMade, coreArgs>>
tvars == <<tpc, width, height, text_width, text_height, rows, cols, row, col, tile>>
svars == <<selector, spc, pinned, original_get_random_palette, used, leftover, raised,
           queueBefore, queueAfter, overlapped, ncalls>>
vars == <<pvars, ovars, fvars, cvars, tvars, svars>>

(***************************************************************************)
(* Bounds of the model.                                                    *)
(***************************************************************************)
\* Number of catalog entries (16 in the program, scaled down).
CatalogSize == 3
\* Longest texts list passed to one generate_wallpapers call.
MaxTexts == 2
\* Number of get_random_palette() calls followed in SpecPalette.
MaxDraws == 9

(***************************************************************************)
(* Helpers on sequences.                                                   *)
(***************************************************************************)
Range(s) == {s[i] : i \in 1..Len(s)}

NoDuplicates(s) == \A i, j \in 1..Len(s) : i # j => s[i] # s[j]

\* s holds every catalog entry exactly once.
OnceEach(s, catalog) ==
    /\ Len(s) = Len(catalog)
    /\ NoDuplicates(s)
    /\ Range(s) = Range(catalog)

Perms(n) == {f \in [1..n -> 1..n] : \A i, j \in 1..n : i # j => f[i] # f[j]}

LastN(s, n) == IF Len(s) <= n THEN s ELSE SubSeq(s, Len(s) - n + 1, Len(s))

(***************************************************************************)
(* ColorPalette                                                            *)
(***************************************************************************)
\* The catalog: palette i stands for the i-th dict of PALETTES (their
\* (bg, fg) pairs are pairwise different).
Catalog == [i \in 1..CatalogSize |-> i]

\* list.copy()
copy(lst) == lst

\* random.shuffle(lst): perm is the permutation the generator picks.
shuffle(lst, perm) == [i \in 1..Len(lst) |-> lst[perm[i]]]

\* `if not cls._palette_queue`, mutated: refill one draw too early.
NeedsRefillEarly(q) == Len(q) <= 1

\* `if not cls._palette_queue`
NeedsRefill(q) == q = <<>>

\* The queue the pop works on: refilled with a shuffled copy when empty.
Refilled(q, catalog, perm) ==
    IF NeedsRefill(q) THEN shuffle(copy(catalog), perm) ELSE q

\* `pop(0)` mutated to a read of the head that leaves it in the queue.
PopKeep(q) == q

\* What `pop(0)` leaves in the queue.
Pop(q) == Tail(q)

\* get_random_palette(): the queue afterwards and the palette returned.
QueueAfterDraw(q, catalog, perm) == Pop(Refilled(q, catalog, perm))
PaletteDrawn(q, catalog, perm) == Head(Refilled(q, catalog, perm))

\* One call of ColorPalette.get_random_palette().
get_random_palette(perm) ==
    /\ palette_queue' = QueueAfterDraw(palette_queue, PALETTES, perm)
    /\ PALETTES' = PALETTES

\* The permutations random.shuffle may pick in a call: it runs only when
\* the queue is refilled.
Shuffles(q) ==
    IF NeedsRefill(q) THEN Perms(CatalogSize) ELSE {[i \in 1..CatalogSize |-> i]}

\* The same call with the history variables of SpecPalette.
Draw ==
    \E perm \in Shuffles(palette_queue) :
        /\ ndraws < MaxDraws
        /\ get_random_palette(perm)
        /\ window' = LastN(Append(window, PaletteDrawn(palette_queue, PALETTES, perm)),
                           CatalogSize)
        /\ sinceRefill' =
             IF NeedsRefill(palette_queue)
             THEN <<PaletteDrawn(palette_queue, PALETTES, perm)>>
             ELSE Append(sinceRefill, PaletteDrawn(palette_queue, PALETTES, perm))
        /\ ndraws' = ndraws + 1
        /\ UNCHANGED <<ovars, fvars, cvars, tvars, svars>>

PaletteInit ==
    /\ PALETTES = Catalog
    /\ palette_queue = <<>>
    /\ window = <<>>
    /\ sinceRefill = <<>>
    /\ ndraws = 0

(***************************************************************************)
(* generate_wallpapers: the loop over texts, palette draw and save.        *)
(* Strings are sequences of characters; ".png" is kept as one token.       *)
(***************************************************************************)
\* The texts a caller may pass: two plain names and one that begins with
\* the path separator.
TextPool == {<<"a">>, <<"b">>, <<"/", "a">>}

TextLists == UNION {[1..n -> TextPool] : n \in 0..MaxTexts}

\* The output_dir argument (a relative directory name).
output_dir == <<"o">>

\* os.path.join mutated to plain concatenation (no separator inserted).
concat_join(a, b) == a \o b

\* os.path.join(a, b) for two components: an absolute b discards a.
os_path_join(a, b) ==
    IF b # <<>> /\ b[1] = "/" THEN b
    ELSE IF a = <<>> \/ a[Len(a)] = "/" THEN a \o b
    ELSE a \o <<"/">> \o b

\* f"{text}.png"
png_name(text) == text \o <<".png">>

\* output_path = os.path.join(output_dir, f"{text}.png")
output_path(dir, text) == os_path_join(dir, png_name(text))

\* The file is directly inside directory dir.
InDir(path, dir) ==
    /\ Len(path) > Len(dir) + 1
    /\ SubSeq(path, 1, Len(dir)) = dir
    /\ path[Len(dir) + 1] = "/"
    /\ \A i \in (Len(dir) + 2)..Len(path) : path[i] # "/"

FilesIn(d, dir) == {f.path : f \in {g \in d : InDir(g.path, dir)}}

\* The image written for a text (its colours are not kept in the model).
Image(text, palette) == [kind |-> "image", text |-> text]

\* What a save that raised part-way leaves behind in a file it had opened.
Partial == [kind |-> "partial", text |-> <<>>]

\* image.save(path): the file is created or overwritten.
save(d, path, content) ==
    {f \in d : f.path # path} \cup {[path |-> path, content |-> content]}

\* image.save(path) raising: either before the file is opened (the disk is
\* untouched) or while writing (an existing file is left truncated).
save_raises(d, path) ==
    {d} \cup {save(d, path, Partial) : x \in {f \in d : f.path = path}}

\* A save error swallowed: the loop goes on with the next text.
pc_after_error_swallowed(i, n) == IF i < n THEN "running" ELSE "done"

\* The exception of image.save is not caught: it leaves generate_wallpapers.
pc_after_error(i, n) == "raised"

\* After the i-th iteration of n: next text, or the function returns.
pc_after_save(i, n) == IF i < n THEN "running" ELSE "done"

\* The disk a call may find: nothing in output_dir, or an image left there
\* earlier under the name of the text "a" (the caller may remove or keep the
\* files of earlier calls).
InitialDisks ==
    {{}, {[path |-> output_path(output_dir, <<"a">>), content |-> Image(<<"a">>, 0)]}}

\* A call generate_wallpapers(ts, output_dir, width, height) begins.
Invoke(ts, d0) ==
    /\ pc # "running"
    /\ texts' = ts
    /\ idx' = 0
    /\ drawn' = <<>>
    /\ disk' = d0
    /\ written' = {}
    /\ emptyAtStart' = (FilesIn(d0, output_dir) = {})
    /\ failedAt' = 0
    /\ diskBefore' = {}
    /\ pc' = pc_after_save(0, Len(ts))
    /\ UNCHANGED <<pvars, fvars, cvars, tvars, svars>>

\* One iteration of `for text in texts` in which the save succeeds.
Iteration(perm) ==
    /\ pc = "running"
    /\ get_random_palette(perm)
    /\ LET i == idx + 1
           palette == PaletteDrawn(palette_queue, PALETTES, perm)
           path == output_path(output_dir, texts[i])
       IN /\ idx' = i
          /\ drawn' = Append(drawn, palette)
          /\ disk' = save(disk, path, Image(texts[i], palette))
          /\ written' = written \cup {path}
          /\ pc' = pc_after_save(i, Len(texts))
    /\ UNCHANGED <<texts, emptyAtStart, failedAt, diskBefore,
                   window, sinceRefill, ndraws, fvars, cvars, tvars, svars>>

\* One iteration in which image.save raises.
IterationSaveRaises(perm) ==
    /\ pc = "running"
    /\ get_random_palette(perm)
    /\ LET i == idx + 1
           palette == PaletteDrawn(palette_queue, PALETTES, perm)
           path == output_path(output_dir, texts[i])
       IN /\ idx' = i
          /\ drawn' = Append(drawn, palette)
          /\ disk' \in save_raises(disk, path)
          /\ failedAt' = i
          /\ diskBefore' = disk
          /\ pc' = pc_after_error(i, Len(texts))
    /\ UNCHANGED <<texts, written, emptyAtStart, window, sinceRefill, ndraws,
                   fvars, cvars, tvars, svars>>

OrchInit ==
    /\ pc = "idle"
    /\ texts = <<>>
    /\ idx = 0
    /\ drawn = <<>>
    /\ disk = {}
    /\ written = {}
    /\ emptyAtStart = TRUE
    /\ failedAt = 0
    /\ diskBefore = {}

(***************************************************************************)
(* _load_font                                                              *)
(***************************************************************************)
\* Largest height argument followed in SpecFont.
MaxHeight == 12

\* font_names, in order of preference.
font_names ==
    <<"DejaVuSans-Bold.ttf", "Arial Bold.ttf", "Helvetica Bold.ttf", "OpenSans-Bold.ttf">>

\* The built-in font of ImageFont.load_default().
default_font == "default"

\* font_size = height // 5
font_size(h) == h \div 5

\* height // 10, the size returned with the built-in font.
fallback_size(h) == h \div 10

\* What ImageFont.truetype(font_name, font_size) may do: return the font,
\* raise OSError (the file is not found or not readable as a font), or raise
\* another exception. A size of 0 never loads.
LoadOutcomes(h) ==
    IF font_size(h) > 0 THEN {"ok", "OSError", "Exception"} ELSE {"OSError", "Exception"}

\* `except OSError` mutated to give up the search at the first missing font.
after_oserror_break(k) == Len(font_names) + 1

\* `except OSError: continue`: the next candidate is tried.
after_oserror(k) == k + 1

NoFont == [name |-> "", size |-> 0]

\* A call _load_font(h) begins; outs fixes what each candidate will do.
LoadFontCall(h, outs) ==
    /\ fpc # "trying"
    /\ fpc' = "trying"
    /\ fheight' = h
    /\ outcomes' = outs
    /\ cand' = 1
    /\ font' = NoFont
    /\ UNCHANGED <<pvars, ovars, cvars, tvars, svars>>

\* `return ImageFont.truetype(font_name, font_size), font_size`
CandidateLoads ==
    /\ fpc = "trying"
    /\ cand <= Len(font_names)
    /\ outcomes[cand] = "ok"
    /\ font' = [name |-> font_names[cand], size |-> font_size(fheight)]
    /\ fpc' = "returned"
    /\ UNCHANGED <<fheight, outcomes, cand, pvars, ovars, cvars, tvars, svars>>

\* truetype raises OSError: caught by the inner handler, the loop continues.
CandidateMissing ==
    /\ fpc = "trying"
    /\ cand <= Len(font_names)
    /\ outcomes[cand] = "OSError"
    /\ cand' = after_oserror(cand)
    /\ UNCHANGED <<fpc, fheight, outcomes, font, pvars, ovars, cvars, tvars, svars>>

\* truetype raises something else: the outer `except Exception` returns the
\* built-in font at once.
CandidateRaises ==
    /\ fpc = "trying"
    /\ cand <= Len(font_names)
    /\ outcomes[cand] = "Exception"
    /\ font' = [name |-> default_font, size |-> fallback_size(fheight)]
    /\ fpc' = "returned"
    /\ UNCHANGED <<fheight, outcomes, cand, pvars, ovars, cvars, tvars, svars>>

\* The loop ends without a font: `return ImageFont.load_default(), height // 10`
NoCandidateLeft ==
    /\ fpc = "trying"
    /\ cand > Len(font_names)
    /\ font' = [name |-> default_font, size |-> fallback_size(fheight)]
    /\ fpc' = "returned"
    /\ UNCHANGED <<fheight, outcomes, cand, pvars, ovars, cvars, tvars, svars>>

FontInit ==
    /\ fpc = "idle"
    /\ fheight = 0
    /\ outcomes = [k \in 1..Len(font_names) |-> "OSError"]
    /\ cand = 1
    /\ font = NoFont

(***************************************************************************)
(* parse_resolution and main                                               *)
(***************************************************************************)
\* Longest --resolution string followed in SpecCLI.
MaxResLen == 4

\* The characters a --resolution string is made of in SpecCLI.
ResolutionChars == {"2", "4", "k", "K", "x", "X", "\n"}

ResolutionStrings == UNION {[1..n -> ResolutionChars] : n \in 0..MaxResLen}

\* RESOLUTION_ALIASES
RESOLUTION_ALIASES ==
    {[name |-> <<"h", "d">>, dims |-> <<1280, 720>>],
     [name |-> <<"f", "h", "d">>, dims |-> <<1920, 1080>>],
     [name |-> <<"2", "k">>, dims |-> <<2560, 1440>>],
     [name |-> <<"4", "k">>, dims |-> <<3840, 2160>>],
     [name |-> <<"u", "h", "d">>, dims |-> <<3840, 2160>>]}

AliasNames == {a.name : a \in RESOLUTION_ALIASES}

AliasDims(name) == (CHOOSE a \in RESOLUTION_ALIASES : a.name = name).dims

\* str.lower() on one character.
lower_char(c) ==
    CASE c = "K" -> "k" [] c = "X" -> "x" [] c = "H" -> "h" [] c = "D" -> "d"
      [] c = "F" -> "f" [] c = "U" -> "u" [] OTHER -> c

\* resolution_str.lower()
lower(str) == [i \in 1..Len(str) |-> lower_char(str[i])]

\* The characters \d matches (among those of ResolutionChars).
Digits == {"0", "1", "2", "3", "4", "5", "6", "7", "8", "9"}

DigitValue(c) ==
    CASE c = "0" -> 0 [] c = "1" -> 1 [] c = "2" -> 2 [] c = "3" -> 3 [] c = "4" -> 4
      [] c = "5" -> 5 [] c = "6" -> 6 [] c = "7" -> 7 [] c = "8" -> 8 [] c = "9" -> 9

\* int(digits)
RECURSIVE int_of(_)
int_of(digits) ==
    IF digits = <<>> THEN 0
    ELSE 10 * int_of(SubSeq(digits, 1, Len(digits) - 1)) + DigitValue(digits[Len(digits)])

\* The positions k at which str reads (\d+)x(\d+) with the x at k.
SplitsAt(str) ==
    {k \in 2..(Len(str) - 1) :
        /\ str[k] = "x"
        /\ \A i \in 1..(k - 1) : str[i] \in Digits
        /\ \A i \in (k + 1)..Len(str) : str[i] \in Digits}

\* The text r'^(\d+)x(\d+)$' is matched against: `$` matches at the end of
\* the string and also just before a newline that ends the string.
BeforeFinalNewline(str) ==
    IF str # <<>> /\ str[Len(str)] = "\n" THEN SubSeq(str, 1, Len(str) - 1) ELSE str

\* re.match(r'^(\d+)x(\d+)$', resolution_str): the groups, or <<>> for None.
re_match(str) ==
    IF SplitsAt(str) # {}
    THEN LET k == CHOOSE k \in SplitsAt(str) : TRUE
         IN <<SubSeq(str, 1, k - 1), SubSeq(str, k + 1, Len(str))>>
    ELSE LET t == BeforeFinalNewline(str)
         IN IF SplitsAt(t) # {}
            THEN LET k == CHOOSE k \in SplitsAt(t) : TRUE
                 IN <<SubSeq(t, 1, k - 1), SubSeq(t, k + 1, Len(t))>>
            ELSE <<>>

\* parse_resolution(resolution_str): [ok |-> TRUE, value |-> (width, height)],
\* or ok |-> FALSE when ValueError is raised.
parse_resolution(str) ==
    IF lower(str) \in AliasNames
    THEN [ok |-> TRUE, value |-> AliasDims(lower(str))]
    ELSE IF re_match(str) # <<>>
    THEN [ok |-> TRUE, value |-> <<int_of(re_match(str)[1]), int_of(re_match(str)[2])>>]
    ELSE [ok |-> FALSE, value |-> <<>>]

\* main() begins: argparse has read --resolution.
CliStart(str) ==
    /\ cpc = "idle"
    /\ resolution' = str
    /\ cpc' = "parse"
    /\ UNCHANGED <<dims, dirMade, coreArgs, pvars, ovars, fvars, tvars, svars>>

\* `width, height = parse_resolution(args.resolution)` returns.
ParseReturns ==
    /\ cpc = "parse"
    /\ parse_resolution(resolution).ok
    /\ dims' = parse_resolution(resolution).value
    /\ cpc' = "makedirs"
    /\ UNCHANGED <<resolution, dirMade, coreArgs, pvars, ovars, fvars, tvars, svars>>

\* parse_resolution raises ValueError: parser.error prints it and exits.
ParseFails ==
    /\ cpc = "parse"
    /\ ~parse_resolution(resolution).ok
    /\ cpc' = "error"
    /\ UNCHANGED <<resolution, dims, dirMade, coreArgs, pvars, ovars, fvars, tvars, svars>>

\* os.makedirs(args.output, exist_ok=True)
MakeDirs ==
    /\ cpc = "makedirs"
    /\ dirMade' = TRUE
    /\ cpc' = "generate"
    /\ UNCHANGED <<resolution, dims, coreArgs, pvars, ovars, fvars, tvars, svars>>

\* generate_wallpapers(texts, output_dir, width, height) is called.
CallGenerate ==
    /\ cpc = "generate"
    /\ coreArgs' = dims
    /\ cpc' = "done"
    /\ UNCHANGED <<resolution, dims, dirMade, pvars, ovars, fvars, tvars, svars>>

CliInit ==
    /\ cpc = "idle"
    /\ resolution = <<>>
    /\ dims = <<>>
    /\ dirMade = FALSE
    /\ coreArgs = <<>>

(***************************************************************************)
(* generate_wallpapers: the diagonal tiling loop for one text.             *)
(*                                                                         *)
(* spacing = (text_width + text_height) / 2 * 1.2 and offset = spacing *   *)
(* 0.5 are floats; with T = text_width + text_height their exact values    *)
(* are 3T/5 and 3T/10. The model keeps every quantity as an exact fraction *)
(* n/d and lets int() of a float whose exact value is a whole number fall   *)
(* on either side of it, as the rounding of the float operations decides.  *)
(* When T is a multiple of 5 the spacing 3T/5 is a whole number: the float *)
(* product rounds to it, every later product and sum is exact, and int()   *)
(* truncates the exact value.                                              *)
(***************************************************************************)
\* Largest canvas width and height followed in SpecTiling.
MaxCanvas == 9
\* Largest measured text width and height followed in SpecTiling.
MaxTextDim == 3

max2(a, b) == IF a >= b THEN a ELSE b
min2(a, b) == IF a <= b THEN a ELSE b

\* Truncation toward zero of n/d, d > 0: int() of the exact value.
trunc(n, d) == IF n >= 0 THEN n \div d ELSE -((-n) \div d)

\* The values int() may return for a float computed for the exact value n/d,
\* t being text_width + text_height. A value that is not whole is truncated.
\* A whole value k may have been rounded just below or just above k before
\* the truncation, unless the float arithmetic is exact (t a multiple of 5).
int_float(n, d, t) ==
    IF n % d # 0 \/ t % 5 = 0 THEN {trunc(n, d)}
    ELSE LET k == n \div d
         IN {k} \cup (IF k > 0 THEN {k - 1} ELSE {}) \cup (IF k < 0 THEN {k + 1} ELSE {})

\* The side of text_img.rotate(45, expand=True) for a text_width * 2 by
\* text_height * 2 image: 2 * ceil((tw + th) / sqrt(2)), in both directions.
RECURSIVE ceil_div_sqrt2(_, _)
ceil_div_sqrt2(t, n) == IF 2 * n * n >= t * t THEN n ELSE ceil_div_sqrt2(t, n + 1)

rotated_size(tw, th) == 2 * ceil_div_sqrt2(tw + th, 0)

\* margin = max(text_width, text_height)
margin_of(tw, th) == max2(tw, th)

\* min_row = max(-3, int((-margin) / spacing)), and min_col alike.
min_index(tw, th) ==
    {max2(-3, q) : q \in int_float(-5 * margin_of(tw, th), 3 * (tw + th), tw + th)}

\* max_row = min(int((height + margin) / spacing) + 3, int(height / spacing) + 3),
\* and max_col alike with width.
max_index(dim, tw, th) ==
    {min2(a + 3, b + 3) :
        a \in int_float(5 * (dim + margin_of(tw, th)), 3 * (tw + th), tw + th),
        b \in int_float(5 * dim, 3 * (tw + th), tw + th)}

\* paste_x = int(x - rotated_text.width // 2), x = col * spacing + row * offset
paste_x(r, c, tw, th) ==
    int_float(3 * (tw + th) * (2 * c + r) - 10 * (rotated_size(tw, th) \div 2), 10, tw + th)

\* paste_y = int(y - rotated_text.height // 2), y = row * spacing
paste_y(r, tw, th) ==
    int_float(3 * (tw + th) * r - 5 * (rotated_size(tw, th) \div 2), 5, tw + th)

\* The test of `continue`: the tile is skipped.
skipped(px, py, size, w, h) ==
    \/ px + size < 0
    \/ px >= w
    \/ py + size < 0
    \/ py >= h

NoTile == [row |-> 0, col |-> 0, px |-> 0, py |-> 0, pasted |-> FALSE, seen |-> FALSE]

\* The loop is entered for a text measured tw by th on a w by h canvas: the
\* spacing, the rotated tile and the row and column bounds are computed.
TileStart(w, h, tw, th) ==
    /\ tpc = "idle"
    /\ width' = w
    /\ height' = h
    /\ text_width' = tw
    /\ text_height' = th
    /\ \E lo \in min_index(tw, th), hi \in max_index(h, tw, th) : rows' = <<lo, hi>> /\ row' = lo
    /\ \E lo \in min_index(tw, th), hi \in max_index(w, tw, th) : cols' = <<lo, hi>> /\ col' = lo
    /\ tile' = NoTile
    /\ tpc' = "loop"
    /\ UNCHANGED <<pvars, ovars, fvars, cvars, svars>>

\* One pass of the inner loop body: the candidate (row, col) is placed, then
\* skipped or pasted; the loop variables advance.
TileCandidate ==
    /\ tpc = "loop"
    /\ row < rows[2]
    /\ \E px \in paste_x(row, col, text_width, text_height),
          py \in paste_y(row, text_width, text_height) :
         tile' = [row |-> row, col |-> col, px |-> px, py |-> py,
                  pasted |-> ~skipped(px, py, rotated_size(text_width, text_height),
                                      width, height),
                  seen |-> TRUE]
    /\ IF col + 1 < cols[2]
       THEN col' = col + 1 /\ row' = row
       ELSE col' = cols[1] /\ row' = row + 1
    /\ UNCHANGED <<tpc, width, height, text_width, text_height, rows, cols,
                   pvars, ovars, fvars, cvars, svars>>

\* Both loops are done: image.save(output_path).
TileSave ==
    /\ tpc = "loop"
    /\ row >= rows[2]
    /\ tpc' = "saved"
    /\ UNCHANGED <<width, height, text_width, text_height, rows, cols, row, col, tile,
                   pvars, ovars, fvars, cvars, svars>>

TilingInit ==
    /\ tpc = "idle"
    /\ width = 1
    /\ height = 1
    /\ text_width = 1
    /\ text_height = 1
    /\ rows = <<0, 0>>
    /\ cols = <<0, 0>>
    /\ row = 0
    /\ col = 0
    /\ tile = NoTile

(***************************************************************************)
(* Interactive front end: generate_single_wallpaper (streamlit_app.py).    *)
(* Streamlit runs the script of each browser session in a thread of its    *)
(* own inside one server process, and the imported class ColorPalette is   *)
(* shared by all of them.  A thread can be preempted between any two       *)
(* statements; generate_wallpapers touches the shared class only where it  *)
(* calls ColorPalette.get_random_palette(), so the rest of it is one step. *)
(***************************************************************************)
\* Calls of generate_single_wallpaper begun in one run of the server.
MaxCalls == 3

\* The script threads (st.session_state is per session).
Sessions == {"s1", "s2"}

\* Values of the attribute ColorPalette.get_random_palette: the classmethod
\* of generator.py, or the function `lambda: palette` of some call.
Original == [kind |-> "sequencer", palette |-> 0]
Lambda(p) == [kind |-> "lambda", palette |-> p]

\* A session is inside generate_single_wallpaper.
Active(s) == spc[s] \notin {"idle", "exited"}

\* The shuffles open to the draw of generate_wallpapers: random.shuffle runs
\* only when the attribute is the sequencer and its queue is empty.
FrontendShuffles ==
    IF selector = Original THEN Shuffles(palette_queue)
    ELSE {[i \in 1..CatalogSize |-> i]}

\* palette = ColorPalette.get_random_palette() in generate_wallpapers: the
\* attribute is looked up when the call is made.
SelectedPalette(perm) ==
    IF selector = Original THEN PaletteDrawn(palette_queue, PALETTES, perm)
    ELSE selector.palette

CallSelector(perm) ==
    IF selector = Original THEN get_random_palette(perm)
    ELSE UNCHANGED <<palette_queue, PALETTES>>

\* process_next_palette calls generate_single_wallpaper(text, palette, ...)
\* with an entry of ColorPalette.PALETTES.
CallSingle(s, p) ==
    /\ ~Active(s)
    /\ ncalls < MaxCalls
    /\ spc' = [spc EXCEPT ![s] = "entered"]
    /\ pinned' = [pinned EXCEPT ![s] = p]
    /\ original_get_random_palette' = [original_get_random_palette EXCEPT ![s] = Original]
    /\ used' = [used EXCEPT ![s] = <<>>]
    /\ leftover' = [leftover EXCEPT ![s] = FALSE]
    /\ raised' = [raised EXCEPT ![s] = FALSE]
    /\ queueBefore' = [queueBefore EXCEPT ![s] = palette_queue]
    /\ queueAfter' = [queueAfter EXCEPT ![s] = palette_queue]
    /\ overlapped' = (overlapped \/ \E t \in Sessions \ {s} : Active(t))
    /\ ncalls' = ncalls + 1
    /\ UNCHANGED <<selector, pvars, ovars, fvars, cvars, tvars>>

\* os.makedirs(wallpaper_dir, exist_ok=True) returns.
MakeWallpaperDir(s) ==
    /\ spc[s] = "entered"
    /\ spc' = [spc EXCEPT ![s] = "dir"]
    /\ UNCHANGED <<selector, pinned, original_get_random_palette, used, leftover, raised,
                   queueBefore, queueAfter, overlapped, ncalls,
                   pvars, ovars, fvars, cvars, tvars>>

\* os.makedirs raises: the call ends before the try statement is entered.
MakeWallpaperDirRaises(s) ==
    /\ spc[s] = "entered"
    /\ spc' = [spc EXCEPT ![s] = "exited"]
    /\ raised' = [raised EXCEPT ![s] = TRUE]
    /\ queueAfter' = [queueAfter EXCEPT ![s] = palette_queue]
    /\ UNCHANGED <<selector, pinned, original_get_random_palette, used, leftover,
                   queueBefore, overlapped, ncalls,
                   pvars, ovars, fvars, cvars, tvars>>

\* original_get_random_palette = ColorPalette.get_random_palette
SaveOriginal(s) ==
    /\ spc[s] = "dir"
    /\ original_get_random_palette' = [original_get_random_palette EXCEPT ![s] = selector]
    /\ spc' = [spc EXCEPT ![s] = "saved"]
    /\ UNCHANGED <<selector, pinned, used, leftover, raised,
                   queueBefore, queueAfter, overlapped, ncalls,
                   pvars, ovars, fvars, cvars, tvars>>

\* ColorPalette.get_random_palette = lambda: palette
Override(s) ==
    /\ spc[s] = "saved"
    /\ selector' = Lambda(pinned[s])
    /\ spc' = [spc EXCEPT ![s] = "patched"]
    /\ UNCHANGED <<pinned, original_get_random_palette, used, leftover, raised,
                   queueBefore, queueAfter, overlapped, ncalls,
                   pvars, ovars, fvars, cvars, tvars>>

\* generate_wallpapers([text], wallpaper_dir, width, height) returns: one
\* palette through the attribute, one file saved.  The file lies in
\* wallpaper_dir unless the text is an absolute path (inside = FALSE).
Generate(s, perm, inside) ==
    /\ spc[s] = "patched"
    /\ CallSelector(perm)
    /\ used' = [used EXCEPT ![s] = Append(@, SelectedPalette(perm))]
    /\ leftover' = [leftover EXCEPT ![s] = inside]
    /\ spc' = [spc EXCEPT ![s] = "generated"]
    /\ UNCHANGED <<selector, pinned, original_get_random_palette, raised,
                   queueBefore, queueAfter, overlapped, ncalls,
                   window, sinceRefill, ndraws, ovars, fvars, cvars, tvars>>

\* generate_wallpapers raises in image.save, after the palette was taken;
\* the failed save may leave a partial file behind (partial = TRUE).
GenerateRaises(s, perm, partial) ==
    /\ spc[s] = "patched"
    /\ CallSelector(perm)
    /\ used' = [used EXCEPT ![s] = Append(@, SelectedPalette(perm))]
    /\ leftover' = [leftover EXCEPT ![s] = partial]
    /\ raised' = [raised EXCEPT ![s] = TRUE]
    /\ spc' = [spc EXCEPT ![s] = "finally"]
    /\ UNCHANGED <<selector, pinned, original_get_random_palette,
                   queueBefore, queueAfter, overlapped, ncalls,
                   window, sinceRefill, ndraws, ovars, fvars, cvars, tvars>>

\* os.rename(output_path, final_path) moves the file out of wallpaper_dir.
Rename(s) ==
    /\ spc[s] = "generated"
    /\ leftover' = [leftover EXCEPT ![s] = FALSE]
    /\ spc' = [spc EXCEPT ![s] = "finally"]
    /\ UNCHANGED <<selector, pinned, original_get_random_palette, used, raised,
                   queueBefore, queueAfter, overlapped, ncalls,
                   pvars, ovars, fvars, cvars, tvars>>

\* os.rename raises: the file stays where generate_wallpapers wrote it.
RenameRaises(s) ==
    /\ spc[s] = "generated"
    /\ raised' = [raised EXCEPT ![s] = TRUE]
    /\ spc' = [spc EXCEPT ![s] = "finally"]
    /\ UNCHANGED <<selector, pinned, original_get_random_palette, used, leftover,
                   queueBefore, queueAfter, overlapped, ncalls,
                   pvars, ovars, fvars, cvars, tvars>>

\* os.rmdir(wallpaper_dir) raises OSError when the directory is not empty.
rmdir_raises(nonempty) == nonempty

\* The finally block: the attribute is set back to the saved value, then
\* wallpaper_dir is removed, and the call returns or raises.
Finally(s) ==
    /\ spc[s] = "finally"
    /\ selector' = original_get_random_palette[s]
    /\ raised' = [raised EXCEPT ![s] = @ \/ rmdir_raises(leftover[s])]
    /\ leftover' = [leftover EXCEPT ![s] = FALSE]
    /\ queueAfter' = [queueAfter EXCEPT ![s] = palette_queue]
    /\ spc' = [spc EXCEPT ![s] = "exited"]
    /\ UNCHANGED <<pinned, original_get_random_palette, used,
                   queueBefore, overlapped, ncalls,
                   pvars, ovars, fvars, cvars, tvars>>

FrontendInit ==
    /\ selector = Original
    /\ spc = [s \in Sessions |-> "idle"]
    /\ pinned = [s \in Sessions |-> 1]
    /\ original_get_random_palette = [s \in Sessions |-> Original]
    /\ used = [s \in Sessions |-> <<>>]
    /\ leftover = [s \in Sessions |-> FALSE]
    /\ raised = [s \in Sessions |-> FALSE]
    /\ queueBefore = [s \in Sessions |-> <<>>]
    /\ queueAfter = [s \in Sessions |-> <<>>]
    /\ overlapped = FALSE
    /\ ncalls = 0

(***************************************************************************)
(* Specifications                                                          *)
(***************************************************************************)
Init == PaletteInit /\ OrchInit /\ FontInit /\ CliInit /\ TilingInit /\ FrontendInit

NextPalette == Draw
SpecPalette == Init /\ [][NextPalette]_vars

Next ==
    \/ \E ts \in TextLists, d0 \in InitialDisks : Invoke(ts, d0)
    \/ \E perm \in Shuffles(palette_queue) : Iteration(perm)
    \/ \E perm \in Shuffles(palette_queue) : IterationSaveRaises(perm)
Spec == Init /\ [][Next]_vars

NextFont ==
    \/ \E h \in 1..MaxHeight :
         \E outs \in [1..Len(font_names) -> LoadOutcomes(h)] : LoadFontCall(h, outs)
    \/ CandidateLoads
    \/ CandidateMissing
    \/ CandidateRaises
    \/ NoCandidateLeft
SpecFont == Init /\ [][NextFont]_vars

NextCLI ==
    \/ \E str \in ResolutionStrings : CliStart(str)
    \/ ParseReturns
    \/ ParseFails
    \/ MakeDirs
    \/ CallGenerate
SpecCLI == Init /\ [][NextCLI]_vars

NextTiling ==
    \/ \E w \in 1..MaxCanvas, h \in 1..MaxCanvas,
          tw \in 1..MaxTextDim, th \in 1..MaxTextDim : TileStart(w, h, tw, th)
    \/ TileCandidate
    \/ TileSave
SpecTiling == Init /\ [][NextTiling]_vars

NextFrontend ==
    \/ \E s \in Sessions, p \in 1..CatalogSize : CallSingle(s, p)
    \/ \E s \in Sessions : MakeWallpaperDir(s)
    \/ \E s \in Sessions : MakeWallpaperDirRaises(s)
    \/ \E s \in Sessions : SaveOriginal(s)
    \/ \E s \in Sessions : Override(s)
    \/ \E s \in Sessions, inside \in BOOLEAN :
         \E perm \in FrontendShuffles : Generate(s, perm, inside)
    \/ \E s \in Sessions, partial \in BOOLEAN :
         \E perm \in FrontendShuffles : GenerateRaises(s, perm, partial)
    \/ \E s \in Sessions : Rename(s)
    \/ \E s \in Sessions : RenameRaises(s)
    \/ \E s \in Sessions : Finally(s)
SpecFrontend == Init /\ [][NextFrontend]_vars

(***************************************************************************)
(* Claims about the palette sequencer (checked under SpecPalette).         *)
(***************************************************************************)
\* C1 as stated: any CatalogSize consecutive draws, wherever the window
\* starts, return every catalog palette exactly once.
C1_AnyWindowOnceEach ==
    Len(window) = CatalogSize => OnceEach(window, PALETTES)

\* C1 amended: CatalogSize consecutive draws that begin on an empty queue
\* (the window ends after a multiple of CatalogSize draws) return every
\* catalog palette exactly once.
C1_AlignedWindowOnceEach ==
    (Len(window) = CatalogSize /\ ndraws % CatalogSize = 0)
        => OnceEach(window, PALETTES)

\* C1 witness: the second full pass has been drawn, in an order other than
\* the catalog's.
C1_Witness ==
    /\ ndraws = 2 * CatalogSize
    /\ Len(window) = CatalogSize
    /\ window # PALETTES

\* C10: the catalog is never changed, the queue holds fewer than CatalogSize
\* entries and none twice, and once a draw has happened the palettes
\* returned since the last refill plus the queued ones are the catalog,
\* each palette once.
C10_QueueInvariant ==
    /\ PALETTES = Catalog
    /\ Len(palette_queue) \in 0..(CatalogSize - 1)
    /\ NoDuplicates(palette_queue)
    /\ ndraws > 0 => OnceEach(sinceRefill \o palette_queue, PALETTES)

\* C10 witness: a draw after the first refill boundary, with palettes both
\* returned since the refill and still queued.
C10_Witness ==
    /\ ndraws > CatalogSize
    /\ palette_queue # <<>>
    /\ sinceRefill # <<>>
    /\ sinceRefill \o palette_queue # PALETTES

(***************************************************************************)
(* Claims about generate_wallpapers (checked under Spec).                  *)
(***************************************************************************)
\* C2 as stated: a call with at most CatalogSize texts draws pairwise
\* distinct palettes, whatever earlier calls drew.
C2_DistinctPalettesPerCall ==
    Len(texts) <= CatalogSize => NoDuplicates(drawn)

\* The name the claims give the file of a text: <text>.png in output_dir.
NamedFile(text) == output_dir \o <<"/">> \o text \o <<".png">>

NamedFiles(ts) == {NamedFile(ts[i]) : i \in 1..Len(ts)}

SeparatorFree(ts) == \A i \in 1..Len(ts) : "/" \notin Range(ts[i])

\* C3 as stated: a completed call has written exactly the files <t>.png of
\* output_dir, and leaves as many files in an initially empty output_dir as
\* there are texts.
C3_OneFilePerText ==
    pc = "done" =>
        /\ written = NamedFiles(texts)
        /\ emptyAtStart => Cardinality(FilesIn(disk, output_dir)) = Len(texts)

\* C3 amended: for texts without a path separator, a completed call has
\* written exactly the files <t>.png of output_dir, and leaves as many files
\* in an initially empty output_dir as there are distinct texts.
C3_OneFilePerDistinctText ==
    (pc = "done" /\ SeparatorFree(texts)) =>
        /\ written = NamedFiles(texts)
        /\ emptyAtStart =>
             Cardinality(FilesIn(disk, output_dir)) = Cardinality(Range(texts))

\* C3 witness: a completed call with two different plain texts in an
\* initially empty directory.
C3_Witness ==
    /\ pc = "done"
    /\ emptyAtStart
    /\ Len(texts) = 2
    /\ SeparatorFree(texts)
    /\ texts[1] # texts[2]
    /\ Cardinality(FilesIn(disk, output_dir)) = 2

FileAt(d, path) == {f \in d : f.path = path}

\* The call stopped at the text whose save raised: nothing later was drawn
\* or written.
StoppedAtFailure ==
    /\ pc = "raised"
    /\ idx = failedAt
    /\ Len(drawn) = failedAt
    /\ written = {output_path(output_dir, texts[j]) : j \in 1..(failedAt - 1)}

\* C5 as stated: when the save of the i-th text raises the call ends there,
\* and the file of every earlier text is on disk as it was before that save.
C5_FailureKeepsEarlierFiles ==
    failedAt # 0 =>
        /\ StoppedAtFailure
        /\ \A j \in 1..(failedAt - 1) :
             LET path == output_path(output_dir, texts[j])
             IN FileAt(disk, path) # {} /\ FileAt(disk, path) = FileAt(diskBefore, path)

\* C5 amended: when the save of the i-th text raises the call ends there,
\* and the file of every earlier text is on disk as it was before that save,
\* except a file the i-th text itself names (an earlier text of the same
\* name), which the failed save may have truncated.
C5_FailureKeepsOtherFiles ==
    failedAt # 0 =>
        /\ StoppedAtFailure
        /\ \A j \in 1..(failedAt - 1) :
             LET path == output_path(output_dir, texts[j])
             IN path # output_path(output_dir, texts[failedAt]) =>
                  FileAt(disk, path) # {} /\ FileAt(disk, path) = FileAt(diskBefore, path)

\* C5 witness: the save of the second text raised after the first text's
\* file, of another name, was written.
C5_Witness ==
    /\ failedAt = 2
    /\ pc = "raised"
    /\ texts[1] # texts[2]
    /\ FileAt(disk, output_path(output_dir, texts[1])) # {}

(***************************************************************************)
(* Claims about _load_font (checked under SpecFont).                       *)
(***************************************************************************)
Loadable == {k \in 1..Len(font_names) : outcomes[k] = "ok"}

FirstOf(S) == CHOOSE k \in S : \A j \in S : k <= j

\* C6 as stated: whatever each candidate does, the first candidate that
\* loads is returned at size height // 5, and the built-in font at size
\* height // 10 only when no candidate loads.
C6_FirstLoadableWins ==
    fpc = "returned" =>
        font = IF Loadable # {}
               THEN [name |-> font_names[FirstOf(Loadable)], size |-> fheight \div 5]
               ELSE [name |-> default_font, size |-> fheight \div 10]

\* The candidates that do anything but raise OSError.
NotMissing == {k \in 1..Len(font_names) : outcomes[k] # "OSError"}

\* C6 amended: a candidate that raises OSError only advances the resolver;
\* the first candidate that does anything else decides: if it loads it is
\* returned at size height // 5, if it raises another exception, or if all
\* candidates raise OSError, the built-in font is returned at height // 10.
C6_FirstNotMissingDecides ==
    fpc = "returned" =>
        font = IF NotMissing # {} /\ outcomes[FirstOf(NotMissing)] = "ok"
               THEN [name |-> font_names[FirstOf(NotMissing)], size |-> fheight \div 5]
               ELSE [name |-> default_font, size |-> fheight \div 10]

\* C6 witness: the first two candidates are missing and the third loads.
C6_Witness ==
    /\ fpc = "returned"
    /\ outcomes[1] = "OSError"
    /\ outcomes[2] = "OSError"
    /\ outcomes[3] = "ok"
    /\ font.name = font_names[3]
    /\ font.size > fheight \div 10

(***************************************************************************)
(* Claims about main (checked under SpecCLI).                              *)
(***************************************************************************)
\* The string is one of the aliases, compared case-insensitively.
IsAlias(str) == lower(str) \in AliasNames

\* The string has the form WIDTHxHEIGHT, both numbers in decimal digits.
IsWidthXHeight(str) == SplitsAt(str) # {}

\* C7 as stated: a string that is neither an alias nor WIDTHxHEIGHT ends
\* main with an error before the directory is made and before the core is
\* called; for an accepted string the core receives the alias's dimensions
\* or the parsed (WIDTH, HEIGHT).
C7_InvalidRejectedBeforeCore ==
    /\ (cpc \notin {"idle", "parse"} /\ ~IsAlias(resolution) /\ ~IsWidthXHeight(resolution))
           => (cpc = "error" /\ ~dirMade /\ coreArgs = <<>>)
    /\ cpc = "error" => (~dirMade /\ coreArgs = <<>>)
    /\ cpc = "done" =>
           coreArgs = IF IsAlias(resolution) THEN AliasDims(lower(resolution))
                      ELSE LET t == BeforeFinalNewline(resolution)
                               k == CHOOSE k \in SplitsAt(t) : TRUE
                           IN <<int_of(SubSeq(t, 1, k - 1)), int_of(SubSeq(t, k + 1, Len(t)))>>

(***************************************************************************)
(* Claims about the tiling loop (checked under SpecTiling).                *)
(***************************************************************************)
TileSize == rotated_size(text_width, text_height)

\* Pixel (x, y) lies in the bounding box of candidate (r, c), for some
\* position the candidate may be given.
InBox(x, y, r, c) ==
    \E px \in paste_x(r, c, text_width, text_height),
       py \in paste_y(r, text_width, text_height) :
        /\ px <= x /\ x < px + TileSize
        /\ py <= y /\ y < py + TileSize

\* C4 as stated: when the ranges are computed, every canvas pixel lies in
\* the bounding box of at least one candidate (row, col) of the ranges.
C4_EveryPixelCovered ==
    (tpc = "loop" /\ ~tile.seen) =>
        \A x \in 0..(width - 1), y \in 0..(height - 1) :
            \E r \in rows[1]..(rows[2] - 1), c \in cols[1]..(cols[2] - 1) : InBox(x, y, r, c)

\* C8 as stated, with s = 3T/5 and every inequality multiplied by 5: the
\* lowest row and column lie at or below -margin - 3s, the highest row at or
\* above height + margin + 3s and the highest column at or above
\* width + margin + 3s.
C8_RangesReachThreeStepsOut ==
    tpc = "loop" =>
        LET T == text_width + text_height
            margin == max2(text_width, text_height)
        IN /\ rows[1] * 3 * T <= -5 * margin - 9 * T
           /\ (rows[2] - 1) * 3 * T >= 5 * (height + margin) + 9 * T
           /\ cols[1] * 3 * T <= -5 * margin - 9 * T
           /\ (cols[2] - 1) * 3 * T >= 5 * (width + margin) + 9 * T

\* The bounding box of a tile at (px, py) shares a pixel with the canvas.
Overlaps(px, py) ==
    /\ px < width /\ px + TileSize > 0
    /\ py < height /\ py + TileSize > 0

\* C9 as stated: a candidate is pasted exactly when its bounding box shares
\* a pixel with the canvas.
C9_PastedIffOverlaps ==
    tile.seen => (tile.pasted <=> Overlaps(tile.px, tile.py))

(***************************************************************************)
(* Claims about the front end's palette override (checked under            *)
(* SpecFrontend).                                                          *)
(***************************************************************************)
\* No call of generate_single_wallpaper is in progress.
Quiescent == \A s \in Sessions : ~Active(s)

\* What C11 says of one call that has exited: every palette its generation
\* used is the pinned one (exactly one when it returned), and the queue is
\* the one it found.
CallKeptItsPin(s) ==
    /\ \A i \in 1..Len(used[s]) : used[s][i] = pinned[s]
    /\ ~raised[s] => used[s] = <<pinned[s]>>
    /\ queueAfter[s] = queueBefore[s]

\* C11: every call of generate_single_wallpaper generates with exactly the
\* pinned palette, and once it has exited, by return or by exception, the
\* palette queue is what it was before the call and, no other call being in
\* progress, ColorPalette.get_random_palette is the sequencer's draw again.
C11_PinnedOverrideIsTemporary ==
    /\ \A s \in Sessions : spc[s] = "exited" => CallKeptItsPin(s)
    /\ Quiescent => selector = Original

\* The same statement for runs in which no two calls were ever in progress
\* at the same time: it holds there, so the failure needs two sessions that
\* overlap.
C11_SequentialCallsRestore ==
    ~overlapped => C11_PinnedOverrideIsTemporary

\* A call that raised after its generation has exited, alone.
C11_SequentialWitness ==
    /\ ~overlapped
    /\ \E s \in Sessions : spc[s] = "exited" /\ raised[s] /\ used[s] # <<>>
    /\ ncalls = MaxCalls
====
